---- MODULE Spec2Model ----
(***************************************************************************)
(* Study tutor front ends of bamontejano/tutor-estudio-app.                *)
(*                                                                         *)
(* The repository holds four near-duplicate single-page applications:      *)
(*   "tutor"  - src/unnamed/part_000: tabs, two-step challenge, local      *)
(*              grading of multiple choice (handleSubmitChallenge)         *)
(*   "tutorB" - src/src/App.jsx, second application (lines 830-1595):      *)
(*              the same tabs, grading always by a network call            *)
(*              (submitForCorrection)                                      *)
(*   "chat"   - src/src/App.jsx, first application (lines 1-829):          *)
(*              chat + ExamModal over fetchWithRetries / generateContent   *)
(*   "chat1"  - src/unnamed/part_001: as "chat", five attempts             *)
(* Which application runs is fixed in the initial state (variant).         *)
(*                                                                         *)
(* A step of the model is one run of a handler or of a continuation of an  *)
(* async function up to its next await (a fetch or a backoff timer).       *)
(* Named handlers are entered whenever the element that carries them can   *)
(* exist and no task is in flight (every control that starts a task is     *)
(* disabled while isGenerating); the handlers' own validation, not the     *)
(* content-dependent rendering and disabling of their buttons              *)
(* ({!isCorrected && <button>}, disabled={!isAllAnswered}), decides what   *)
(* they do.                                                                *)
(***************************************************************************)
EXTENDS Integers, Sequences, FiniteSets, TLC

\* ---------------------------------------------------------------- bounds
MaxQuestions == 2
MaxLog == 4
MaxText == 1
MaxReads == 1

\* ------------------------------------------------------ program constants
GeminiMaxRetries == 3
FetchMaxRetriesApp == 3
FetchMaxRetriesPart1 == 5
PassMark == 60
BackoffBase == 1000

\* ----------------------------------------------------------- value spaces
Variants == {"tutor", "tutorB", "chat", "chat1"}
TutorVariants == {"tutor", "tutorB"}
ChatVariants == {"chat", "chat1"}

View == {"EXAM_MULTIPLE", "EXAM_DEVELOPMENT", "SUMMARY", "FLASHCARDS"}

NoFile == "nofile"
Files == {"notes.txt", "page.png"}
MimeOf(f) == IF f = "page.png" THEN "image/png" ELSE "text/plain"
NoType == "notype"

\* String.prototype.startsWith('image/') on the two mime types in use
IsImage(mime) == mime = "image/png"

\* Characters of a free-text answer: a blank and a letter
Chars == {" ", "a"}
RECURSIVE SeqsUpTo(_, _)
SeqsUpTo(S, n) ==
    IF n = 0 THEN {<<>>}
    ELSE LET shorter == SeqsUpTo(S, n - 1)
         IN  shorter \cup {Append(s, x) : s \in {t \in shorter : Len(t) = n - 1}, x \in S}
Texts == SeqsUpTo(Chars, MaxText)

\* String.prototype.trim
RECURSIVE TrimLeft(_)
TrimLeft(t) == IF t # <<>> /\ Head(t) = " " THEN TrimLeft(Tail(t)) ELSE t
RECURSIVE TrimRight(_)
TrimRight(t) ==
    IF t # <<>> /\ t[Len(t)] = " " THEN TrimRight(SubSeq(t, 1, Len(t) - 1)) ELSE t
Trim(t) == TrimRight(TrimLeft(t))

\* !userSubmission.trim(): the empty string is falsy
IsBlank(t) == Trim(t) = <<>>

\* Option letters as the interface derives them, and "null" for no answer
Letters == {"A", "B"}
NoAnswer == "null"

\* correct_answer is a STRING of the response schema and is used as it comes:
\* a letter of one of the options, or a string that no option carries
AnswerKeys == Letters \cup {"C"}

\* One generated question: the answer key of the model's JSON
Question == [correct_answer : AnswerKeys]
QuestionLists == SeqsUpTo(Question, MaxQuestions)

\* Quiz of the chat applications: correctAnswerIndex, two options
OptionIndexes == {0, 1}
Undefined == -1
ModalQuestion == [correctAnswerIndex : OptionIndexes]
ModalQuestionLists == SeqsUpTo(ModalQuestion, MaxQuestions)

\* What one fetch can come back with: a usable 2xx body, a 2xx body without
\* candidate text, a 2xx body whose text is not JSON, an HTTP error status,
\* or no response at all (fetch rejects)
Responses == {"ok", "empty", "badjson", "400", "429", "500", "neterr"}
StatusOf(r) ==
    CASE r \in {"ok", "empty", "badjson"} -> 200
      [] r = "400" -> 400
      [] r = "429" -> 429
      [] r = "500" -> 500
      [] OTHER -> 0
\* Response.ok
ResponseOk(r) == StatusOf(r) >= 200 /\ StatusOf(r) <= 299

VARIABLES
    variant,             \* which application is running
    apiKey,              \* GEMINI_API_KEY / API_KEY is a non-empty string
    currentView,         \* tutor: selected tab
    file,                \* tutor: selected file, NoFile for null
    fileType,            \* tutor: its mime type
    fileContent,         \* tutor: [of, enc] what was read, of = NoFile for ''
    isFileContentReady,  \* tutor
    pendingReads,        \* FileReader reads in flight
    fileData,            \* chat: loaded material, NoFile for null
    isGenerating,
    currentChallenge,
    userSubmission,      \* tutor: free text of an open-response answer
    userSelections,      \* tutor: one slot per question, NoAnswer for null
    selectedAnswers,     \* chat: ExamModal state, an object keyed by question
    submitted,           \* chat: ExamModal state
    userInput,           \* chat: text of the chat box
    chatHistory,
    call                 \* the generation call in flight, see IdleCall

vars == <<variant, apiKey, currentView, file, fileType, fileContent,
          isFileContentReady, pendingReads, fileData, isGenerating,
          currentChallenge, userSubmission, userSelections, selectedAnswers,
          submitted, userInput, chatHistory, call>>

fileVars == <<file, fileType, fileContent, isFileContentReady, pendingReads, fileData>>
modalVars == <<selectedAnswers, submitted>>
configVars == <<variant, apiKey>>

\* ------------------------------------------------------ challenge session
NoPercentage == [num |-> Undefined, den |-> 1]
NullChallenge ==
    [type |-> "null", questions |-> <<>>, isCorrected |-> FALSE,
     score |-> Undefined, total |-> Undefined, percentage |-> NoPercentage,
     results |-> <<>>]

\* generateChallenge: { type, data, userPrompt, isCorrected: false }
NewChallenge(type, questions) ==
    [NullChallenge EXCEPT !.type = type, !.questions = questions]

\* variant of InitialSelections: the first option is selected from the start
InitialSelections_Prefilled(questions) == [i \in 1..Len(questions) |-> "A"]

\* initialSelections[index] = null for every question
InitialSelections(questions) == [i \in 1..Len(questions) |-> NoAnswer]

\* ---------------------------------------------------------- the call slot
\* content of a response / value a call resolves with
NoPayload == [kind |-> "none", questions |-> <<>>]
TextPayload == [kind |-> "text", questions |-> <<>>]
QuizPayload(qs) == [kind |-> "quiz", questions |-> qs]
NoError == [status |-> Undefined, attempt |-> Undefined, what |-> "none"]
IdleCall ==
    [pc |-> "idle",          \* idle, fetch, wait, returned, threw
     kind |-> "none",        \* create, onestep, grade, chat
     type |-> "none",        \* create: multiple / development / quiz
     structured |-> FALSE,   \* a response schema was sent
     maxRetries |-> 0,
     attempt |-> 0,          \* loop variable of the retry loop
     fetches |-> 0,          \* fetch() calls issued
     answered |-> 0,         \* fetch() calls that came back
     waits |-> 0,            \* backoff timers started
     delay |-> 0,            \* ms asked of the backoff timer that is running
     last |-> "none",        \* what the latest fetch came back with
     prior429 |-> TRUE,      \* every fetch before the latest came back 429
     payload |-> NoPayload,  \* content of the usable response
     returned |-> NoPayload, \* value the call resolved with
     error |-> NoError,      \* error the call rejected with
     file |-> NoFile,        \* file captured by the saveMessage closure
     session |-> NullChallenge,  \* currentChallenge captured by the closures
     text |-> <<>>]          \* userSubmission captured by the closures

InFlight == call.pc \in {"fetch", "wait"}
\* a resolved or rejected call whose awaiting continuation has not run yet;
\* it runs as a microtask, before the event loop takes any other event
Settling == call.pc \in {"returned", "threw"}

\* ---------------------------------------------------------------- the log
\* saveMessage: { role, text, timestamp, isSubmission, isError, file,
\* correctionData? }; the chat applications append { role, text }
Entry(role, text, isSubmission, isError, f, correctionData) ==
    [role |-> role, text |-> text, isSubmission |-> isSubmission,
     isError |-> isError, file |-> f, correctionData |-> correctionData]

\* the fifth argument of saveMessage: nothing, the generated challenge, or
\* { type: 'correction', score, total, percentage }
NoData == [type |-> "none", score |-> Undefined, total |-> Undefined,
           percentage |-> NoPercentage]
ChallengeData == [NoData EXCEPT !.type = "challenge"]

\* variant of CorrectionData: the summary is saved without its type tag
CorrectionData_Untagged(score, total, percentage) ==
    [type |-> "none", score |-> score, total |-> total, percentage |-> percentage]

\* { type: 'correction', score: correctCount, total: totalQuestions, percentage }
CorrectionData(score, total, percentage) ==
    [type |-> "correction", score |-> score, total |-> total,
     percentage |-> percentage]

ChatEntry(role, text) == Entry(role, text, FALSE, FALSE, NoFile, NoData)

\* the result text of ExamModal.handleSubmit: score, number of questions and
\* (App.jsx) the percentage
ResultEntry(score, total, percentage) ==
    Entry("model", "result", FALSE, FALSE, NoFile,
          [type |-> "result", score |-> score, total |-> total,
           percentage |-> percentage])

\* variant of saveMessage: [message, ...prev]
saveMessage_Prepend(log, role, text, isSubmission, isError, f, correctionData) ==
    <<Entry(role, text, isSubmission, isError, f, correctionData)>> \o log

\* setChatHistory(prev => [...prev, message])
saveMessage(log, role, text, isSubmission, isError, f, correctionData) ==
    Append(log, Entry(role, text, isSubmission, isError, f, correctionData))

\* ------------------------------------------------------------ file reads
\* "reader": the FileReader of handleFileChange; "base64": the second reader
\* that getBase64Image starts from inside onload (images only)
ReadKinds == Files \X {"reader", "base64"}
NoReads == [k \in ReadKinds |-> 0]
RECURSIVE SumReads(_, _)
SumReads(reads, ks) ==
    IF ks = {} THEN 0
    ELSE LET k == CHOOSE x \in ks : TRUE IN reads[k] + SumReads(reads, ks \ {k})
PendingCount(reads) == SumReads(reads, ReadKinds)
StartRead(reads, f, stage) == [reads EXCEPT ![<<f, stage>>] = @ + 1]
EndRead(reads, f, stage) == [reads EXCEPT ![<<f, stage>>] = @ - 1]

\* ExamModal: useState({}) has no key
NoSelected == <<>>

Init ==
    /\ variant \in Variants
    /\ apiKey \in BOOLEAN
    /\ currentView = "EXAM_MULTIPLE"
    /\ file = NoFile
    /\ fileType = NoType
    /\ fileContent = [of |-> NoFile, enc |-> "none"]
    /\ isFileContentReady = FALSE
    /\ pendingReads = NoReads
    /\ fileData = NoFile
    /\ isGenerating = FALSE
    /\ currentChallenge = NullChallenge
    /\ userSubmission = <<>>
    /\ userSelections = <<>>
    /\ selectedAnswers = NoSelected
    /\ submitted = FALSE
    /\ userInput = <<>>
    /\ chatHistory = <<>>
    /\ call = IdleCall

\* ================================================================ tutor
\* the two tabbed applications: part_000 and the second one of App.jsx
IsTutor == variant \in TutorVariants
IsChat == variant \in ChatVariants

isChallengeActive == currentChallenge.type # "null"
isReadyForAction == isFileContentReady /\ ~isGenerating

\* handleFileChange: the hidden input is opened by the upload button, which is
\* disabled while isGenerating || file || currentChallenge
HandleFileChange ==
    /\ IsTutor /\ ~Settling
    /\ ~isGenerating /\ file = NoFile /\ ~isChallengeActive
    /\ fileContent' = [of |-> NoFile, enc |-> "none"]
    /\ isFileContentReady' = FALSE
    /\ currentChallenge' = NullChallenge
    /\ userSubmission' = <<>>
    /\ userSelections' = <<>>
    /\ \/ \* nothing selected, or the file is larger than MAX_FILE_SIZE
          /\ file' = NoFile /\ fileType' = NoType
          /\ UNCHANGED pendingReads
       \/ \E f \in Files :
          /\ PendingCount(pendingReads) < MaxReads
          /\ file' = f
          /\ fileType' = MimeOf(f)
          /\ pendingReads' = StartRead(pendingReads, f, "reader")
    /\ UNCHANGED <<configVars, currentView, fileData, isGenerating, modalVars,
                   userInput, chatHistory, call>>

\* reader.onload of handleFileChange, text file: content is e.target.result
ReaderOnloadText ==
    /\ IsTutor /\ ~Settling
    /\ \E f \in Files :
          /\ pendingReads[<<f, "reader">>] > 0
          /\ ~IsImage(MimeOf(f))
          /\ pendingReads' = EndRead(pendingReads, f, "reader")
          /\ fileContent' = [of |-> f, enc |-> "text"]
          /\ isFileContentReady' = TRUE
    /\ UNCHANGED <<configVars, currentView, file, fileType, fileData, isGenerating,
                   currentChallenge, userSubmission, userSelections, modalVars,
                   userInput, chatHistory, call>>

\* reader.onload, image: await getBase64Image(selectedFile) starts a second read
ReaderOnloadImage ==
    /\ IsTutor /\ ~Settling
    /\ \E f \in Files :
          /\ pendingReads[<<f, "reader">>] > 0
          /\ IsImage(MimeOf(f))
          /\ pendingReads' = StartRead(EndRead(pendingReads, f, "reader"), f, "base64")
    /\ UNCHANGED <<configVars, currentView, file, fileType, fileContent,
                   isFileContentReady, fileData, isGenerating, currentChallenge,
                   userSubmission, userSelections, modalVars, userInput,
                   chatHistory, call>>

\* getBase64Image resolved: reader.result.split(',')[1] is the base64 payload
Base64Loaded ==
    /\ IsTutor /\ ~Settling
    /\ \E f \in Files :
          /\ pendingReads[<<f, "base64">>] > 0
          /\ pendingReads' = EndRead(pendingReads, f, "base64")
          /\ fileContent' = [of |-> f, enc |-> "base64"]
          /\ isFileContentReady' = TRUE
    /\ UNCHANGED <<configVars, currentView, file, fileType, fileData, isGenerating,
                   currentChallenge, userSubmission, userSelections, modalVars,
                   userInput, chatHistory, call>>

\* reader.onerror, or getBase64Image rejected (the catch of onload): both
\* setFile(null); setFileContent('') and leave the other fields alone
ReaderError ==
    /\ IsTutor /\ ~Settling
    /\ \E k \in ReadKinds :
          /\ pendingReads[k] > 0
          /\ pendingReads' = EndRead(pendingReads, k[1], k[2])
    /\ file' = NoFile
    /\ fileContent' = [of |-> NoFile, enc |-> "none"]
    /\ UNCHANGED <<configVars, currentView, fileType, isFileContentReady, fileData,
                   isGenerating, currentChallenge, userSubmission, userSelections,
                   modalVars, userInput, chatHistory, call>>

\* variant of ClearFileLog: clearFile leaves the log alone
ClearFileLog_Kept(v, log) == log

\* setChatHistory([]) is part of clearFile in part_000 only
ClearFileLog(v, log) == IF v = "tutor" THEN <<>> ELSE log

\* clearFile: the button is rendered while file is set and is never disabled
ClearFile ==
    /\ IsTutor /\ ~Settling
    /\ file # NoFile
    /\ file' = NoFile
    /\ fileContent' = [of |-> NoFile, enc |-> "none"]
    /\ fileType' = NoType
    /\ isFileContentReady' = FALSE
    /\ currentChallenge' = NullChallenge
    /\ userSubmission' = <<>>
    /\ userSelections' = <<>>
    /\ chatHistory' = ClearFileLog(variant, chatHistory)
    /\ UNCHANGED <<configVars, currentView, pendingReads, fileData, isGenerating,
                   modalVars, userInput, call>>

\* TabButton onClick, disabled while isGenerating
TabClick ==
    /\ IsTutor /\ ~Settling
    /\ ~isGenerating
    /\ \E v \in View : currentView' = v
    /\ currentChallenge' = NullChallenge
    /\ userSubmission' = <<>>
    /\ userSelections' = <<>>
    /\ UNCHANGED <<configVars, fileVars, isGenerating, modalVars, userInput,
                   chatHistory, call>>

\* onChange of the free-text area: disabled={isGenerating || isCorrected} in
\* part_000, disabled={isGenerating} in App.jsx
TextareaDisabled(v, generating, ch) ==
    IF v = "tutor" THEN generating \/ ch.isCorrected ELSE generating

\* the text area is rendered by branch 2B of renderInputControls
TextareaRendered ==
    /\ isChallengeActive
    /\ IF variant = "tutor" THEN currentView = "EXAM_DEVELOPMENT"
       ELSE currentChallenge.type = "development"

EditSubmission ==
    /\ IsTutor /\ ~Settling
    /\ TextareaRendered
    /\ ~TextareaDisabled(variant, isGenerating, currentChallenge)
    /\ \E t \in Texts : userSubmission' = t
    /\ UNCHANGED <<configVars, currentView, fileVars, isGenerating, currentChallenge,
                   userSelections, modalVars, userInput, chatHistory, call>>

\* variant of SelectionChangeAllowed: the early return is missing
SelectionChangeAllowed_Always(v, ch) == TRUE

\* handleSelectionChange: if (currentChallenge && currentChallenge.isCorrected)
\* return;  the App.jsx version has no such line
SelectionChangeAllowed(v, ch) ==
    IF v = "tutor" THEN ~(ch.type # "null" /\ ch.isCorrected) ELSE TRUE

\* handleSelectionChange(qIndex, optionLetter), called from the option rows of
\* the multiple-choice form
HandleSelectionChange ==
    /\ IsTutor /\ ~Settling
    /\ currentChallenge.type = "multiple"
    /\ \E qIndex \in 1..Len(currentChallenge.questions), optionLetter \in Letters :
          userSelections' =
              IF SelectionChangeAllowed(variant, currentChallenge)
              THEN [userSelections EXCEPT ![qIndex] = optionLetter]
              ELSE userSelections
    /\ UNCHANGED <<configVars, currentView, fileVars, isGenerating, currentChallenge,
                   userSubmission, modalVars, userInput, chatHistory, call>>

\* ----------------------------------------------------------- local grader
\* userSelections[index], undefined for a missing key
SelectionAt(selections, i) ==
    IF i \in DOMAIN selections THEN selections[i] ELSE "undefined"

\* variant of IsCorrect: every answered question counts
IsCorrect_Answered(userAnswer, q) == userAnswer \in Letters

\* const isCorrect = userAnswer === q.correct_answer
IsCorrect(userAnswer, q) == userAnswer = q.correct_answer

\* let correctCount = 0; questions.map(... if (isCorrect) correctCount++ ...)
RECURSIVE CountCorrect(_, _, _)
CountCorrect(questions, selections, n) ==
    IF n = 0 THEN 0
    ELSE CountCorrect(questions, selections, n - 1)
         + (IF IsCorrect(SelectionAt(selections, n), questions[n]) THEN 1 ELSE 0)

GradeResults(questions, selections) ==
    [i \in 1..Len(questions) |->
        [userAnswer |-> SelectionAt(selections, i),
         isCorrect |-> IsCorrect(SelectionAt(selections, i), questions[i]),
         correctAnswer |-> questions[i].correct_answer]]

\* variant of ScorePercentage: Math.round applied before the value is stored
ScorePercentage_Rounded(correctCount, totalQuestions) ==
    IF totalQuestions = 0 THEN [num |-> 0, den |-> 0]
    ELSE [num |-> (200 * correctCount + totalQuestions) \div (2 * totalQuestions),
          den |-> 1]

\* const scorePercentage = (correctCount / totalQuestions) * 100: a double,
\* kept here as the exact fraction num/den (den = 0 is NaN)
ScorePercentage(correctCount, totalQuestions) ==
    [num |-> correctCount * 100, den |-> totalQuestions]

\* scorePercentage >= 60; a comparison with NaN is false
IsPassing(pct) == pct.den > 0 /\ pct.num >= PassMark * pct.den

\* Number.prototype.toFixed(0) / Math.round of a non-negative fraction
RoundHalfUp(pct) == (2 * pct.num + pct.den) \div (2 * pct.den)

\* showToast(..., isPassing ? 'success' : 'error'): the severity reported when
\* the exam is graded
ToastType(pct) == IF IsPassing(pct) THEN "success" ELSE "error"

\* currentChallenge.percentage >= 60 ? green : red, the banner of the graded
\* form, and msg.correctionData.percentage >= 60 of the log entry
BannerPassing(ch) == IsPassing(ch.percentage)

\* handleSubmitMultipleChoice: the graded session
GradedChallenge(ch, selections) ==
    LET questions == ch.questions
        correctCount == CountCorrect(questions, selections, Len(questions))
        totalQuestions == Len(questions)
    IN  [ch EXCEPT !.isCorrected = TRUE,
                   !.score = correctCount,
                   !.total = totalQuestions,
                   !.percentage = ScorePercentage(correctCount, totalQuestions),
                   !.results = GradeResults(questions, selections)]

\* Object.values(userSelections).filter(s => s !== null).length
AnsweredCount(selections) ==
    Cardinality({i \in DOMAIN selections : selections[i] # NoAnswer})

\* variant of SubmissionIncomplete: only an untouched form is rejected
SubmissionIncomplete_Untouched(answeredCount, totalQuestions) ==
    answeredCount = 0 /\ totalQuestions > 0

\* if (answeredCount < totalQuestions) { showToast(...); return; }
SubmissionIncomplete(answeredCount, totalQuestions) == answeredCount < totalQuestions

\* variant of GeminiPrecondition: the key is not checked
GeminiPrecondition_NoKeyCheck(v, f, ready, key) ==
    IF f = NoFile \/ ~ready THEN "notready" ELSE "pass"

\* ------------------------------------------------------- handleGeminiCall
\* if (!file || !isFileContentReady) throw ...; if (!GEMINI_API_KEY) throw ...
\* (the second check exists in part_000 only)
GeminiPrecondition(v, f, ready, key) ==
    IF f = NoFile \/ ~ready THEN "notready"
    ELSE IF v = "tutor" /\ ~key THEN "nokey"
    ELSE "pass"

\* Math.random() * 1000: a value of [0, 1000), here in whole milliseconds,
\* its two ends
Jitters == {0, BackoffBase - 1}

\* variant of Backoff: the wait grows by one second per attempt
Backoff_Linear(attempt, jitter) == (attempt + 1) * BackoffBase + jitter

\* const delay = Math.pow(2, attempt) * 1000 + Math.random() * 1000, on the
\* 429 path and in the catch of the loop alike
Backoff(attempt, jitter) == (2 ^ attempt) * BackoffBase + jitter

\* if (response.status === 429) { if (attempt < maxRetries - 1) {...continue} }
GeminiRetry429(attempt, maxRetries) == attempt < maxRetries - 1

\* variant of GeminiLastAttempt: the comparison is off by one
GeminiLastAttempt_OffByOne(attempt, maxRetries) == attempt = maxRetries

\* catch (error) { if (attempt === maxRetries - 1) throw error; ... }
GeminiLastAttempt(attempt, maxRetries) == attempt = maxRetries - 1

\* The body of the try block for one response: "success", "continue" (the 429
\* branch: wait, then the next iteration) or the kind of error thrown
GeminiTry(r, attempt, maxRetries, structured) ==
    IF r = "neterr" THEN "network"
    ELSE IF StatusOf(r) = 429 /\ GeminiRetry429(attempt, maxRetries) THEN "continue"
    ELSE IF ~ResponseOk(r) THEN "http"
    ELSE IF r = "empty" THEN "empty"
    ELSE IF structured /\ r = "badjson" THEN "badjson"
    ELSE "success"

\* What the loop does with one response: "success", "wait" (a backoff timer,
\* then the next attempt) or "throw"
GeminiLoop(r, attempt, maxRetries, structured) ==
    LET t == GeminiTry(r, attempt, maxRetries, structured)
    IN  IF t = "success" THEN "success"
        ELSE IF t = "continue" THEN "wait"
        ELSE IF GeminiLastAttempt(attempt, maxRetries) THEN "throw"
        ELSE "wait"

\* the error thrown for response r of attempt c.fetches: the status of the
\* response it was made from, and which throw statement made it
ErrorOf(r, c, what) == [status |-> StatusOf(r), attempt |-> c.fetches, what |-> what]

\* the call after one more response has been observed
Seen(c, r) ==
    [c EXCEPT !.last = r, !.answered = @ + 1,
              !.prior429 = c.prior429 /\ c.last \in {"none", "429"}]

\* a call that starts: the closures of this render capture file, the session
\* and the free text
StartedCall(kind, type, structured, maxRetries) ==
    [IdleCall EXCEPT !.kind = kind, !.type = type, !.structured = structured,
                     !.maxRetries = maxRetries, !.file = file,
                     !.session = currentChallenge, !.text = userSubmission]

\* variant of GeminiEnter: the user turn is not saved
GeminiEnter_NoUserEntry(c, log, isCorrection) ==
    LET pre == GeminiPrecondition(variant, file, isFileContentReady, apiKey)
    IN  IF pre # "pass"
        THEN [call |-> [c EXCEPT !.pc = "threw",
                                 !.error = [status |-> Undefined, attempt |-> 0,
                                            what |-> pre]],
              log |-> log]
        ELSE [call |-> [c EXCEPT !.pc = "fetch", !.fetches = 1], log |-> log]

\* handleGeminiCall up to its first await: the checks, saveMessage("user", ...)
\* and the first fetch.  Gives the call and the log.
GeminiEnter(c, log, isCorrection) ==
    LET pre == GeminiPrecondition(variant, file, isFileContentReady, apiKey)
    IN  IF pre # "pass"
        THEN [call |-> [c EXCEPT !.pc = "threw",
                                 !.error = [status |-> Undefined, attempt |-> 0,
                                            what |-> pre]],
              log |-> log]
        ELSE [call |-> [c EXCEPT !.pc = "fetch", !.fetches = 1],
              log |-> saveMessage(log, "user",
                                  IF isCorrection THEN "submission" ELSE "prompt",
                                  isCorrection, FALSE, c.file, NoData)]

\* room in the log for the n entries that a call which starts now can append
LogRoom(n) == Len(chatHistory) + n <= MaxLog

\* the generate button of the exam tabs is rendered unless the answer form is
GenerateButtonRendered ==
    /\ currentView \in {"EXAM_MULTIPLE", "EXAM_DEVELOPMENT"}
    /\ ~(isChallengeActive
         /\ IF variant = "tutor"
            THEN \/ currentView = "EXAM_MULTIPLE" /\ currentChallenge.type = "multiple"
                 \/ currentView = "EXAM_DEVELOPMENT"
            ELSE currentChallenge.type \in {"multiple", "development"})

\* variant of StartDisabled: the controls stay enabled during a call
StartDisabled_Never(generating) == FALSE

\* The controls that start a call are off while a call is outstanding:
\* disabled={!isReadyForAction}, disabled={isGenerating || ...} on the buttons,
\* if (!userInput.trim() || isGenerating) return; in handleSendChat
StartDisabled(generating) == generating

\* generateChallenge(type, prompt) up to the await of handleGeminiCall
GenerateChallenge ==
    /\ IsTutor /\ ~Settling
    /\ ~StartDisabled(isGenerating)
    /\ GenerateButtonRendered
    /\ LogRoom(2)
    /\ LET type == IF currentView = "EXAM_MULTIPLE" THEN "multiple" ELSE "development"
           c == StartedCall("create", type, type = "multiple", GeminiMaxRetries)
           e == GeminiEnter(c, chatHistory, FALSE)
       IN  /\ call' = e.call
           /\ chatHistory' = e.log
    /\ isGenerating' = TRUE
    /\ currentChallenge' = NullChallenge
    /\ userSubmission' = <<>>
    /\ userSelections' = <<>>
    /\ UNCHANGED <<configVars, currentView, fileVars, modalVars, userInput>>

\* generateOneStepContent(actionPrompt) up to the await
GenerateOneStepContent ==
    /\ IsTutor /\ ~Settling
    /\ ~StartDisabled(isGenerating)
    /\ currentView \in {"SUMMARY", "FLASHCARDS"}
    /\ LogRoom(2)
    /\ LET c == StartedCall("onestep", "none", FALSE, GeminiMaxRetries)
           e == GeminiEnter(c, chatHistory, FALSE)
       IN  /\ call' = e.call
           /\ chatHistory' = e.log
    /\ isGenerating' = TRUE
    /\ currentChallenge' = NullChallenge
    /\ userSubmission' = <<>>
    /\ userSelections' = <<>>
    /\ UNCHANGED <<configVars, currentView, fileVars, modalVars, userInput>>

\* A fetch of handleGeminiCall comes back; the code runs to the next await,
\* to the return or to the throw
GeminiFetchReturn ==
    /\ IsTutor /\ call.pc = "fetch"
    /\ \E r \in Responses :
          /\ r = "badjson" => call.structured
          /\ LET next == GeminiLoop(r, call.attempt, call.maxRetries, call.structured)
                 seen == Seen(call, r)
             IN  \/ /\ next = "wait"
                    /\ \E jitter \in Jitters :
                          call' = [seen EXCEPT !.pc = "wait", !.waits = @ + 1,
                                               !.delay = Backoff(call.attempt, jitter)]
                    /\ UNCHANGED chatHistory
                 \/ /\ next = "throw"
                    /\ call' = [seen EXCEPT
                                  !.pc = "threw",
                                  !.error = ErrorOf(r, call,
                                      GeminiTry(r, call.attempt, call.maxRetries,
                                                call.structured))]
                    /\ UNCHANGED chatHistory
                 \/ /\ next = "success"
                    /\ \E payload \in IF call.structured
                                      THEN {QuizPayload(qs) : qs \in QuestionLists}
                                      ELSE {TextPayload} :
                          call' = [seen EXCEPT !.pc = "returned",
                                               !.payload = payload,
                                               !.returned = payload]
                    /\ chatHistory' =
                          saveMessage(chatHistory, "model", "reply",
                                      call.kind = "grade", FALSE, call.file,
                                      IF call.structured THEN ChallengeData ELSE NoData)
    /\ UNCHANGED <<configVars, currentView, fileVars, isGenerating, currentChallenge,
                   userSubmission, userSelections, modalVars, userInput>>

\* variant of AfterDelay: the loop counter is not advanced
AfterDelay_SameAttempt(c) == [c EXCEPT !.pc = "fetch", !.fetches = @ + 1]

\* for (let attempt = 0; attempt < maxRetries; attempt++): after the timer the
\* loop goes on with the next fetch, or ends and the function returns undefined
AfterDelay(c) ==
    IF c.attempt + 1 < c.maxRetries
    THEN [c EXCEPT !.pc = "fetch", !.attempt = @ + 1, !.fetches = @ + 1,
                   !.delay = 0]
    ELSE [c EXCEPT !.pc = "returned", !.attempt = @ + 1, !.delay = 0]

\* The backoff timer fires: attempt++ and the next fetch
GeminiDelayElapsed ==
    /\ IsTutor /\ call.pc = "wait"
    /\ call' = AfterDelay(call)
    /\ UNCHANGED <<configVars, currentView, fileVars, isGenerating, currentChallenge,
                   userSubmission, userSelections, modalVars, userInput, chatHistory>>

\* variant of ErrorEntry: the entry is saved without the error flag
ErrorEntry_Unflagged(isSubmission, f, message) ==
    Entry("model", message, isSubmission, FALSE, f, NoData)

\* saveMessage("model", `ERROR: ... Mensaje: ${error.message}`, isSubmission,
\* true) of the catch blocks: the text carries the message of the error
ErrorEntry(isSubmission, f, message) ==
    Entry("model", message, isSubmission, TRUE, f, NoData)

\* variant of StillGenerating: the flag is cleared at the end of the try body
StillGenerating_AfterCatch(pc) == pc = "threw"

\* finally { setIsGenerating(false); }: isGenerating after the continuation of
\* a call that returned or threw
StillGenerating(pc) == FALSE

\* generateChallenge after the await: the try body, the catch, the finally
GenerateChallengeSettle ==
    /\ IsTutor /\ Settling /\ call.kind = "create"
    /\ \/ /\ call.pc = "returned"
          /\ currentChallenge' = NewChallenge(call.type, call.returned.questions)
          /\ userSelections' =
                IF call.type = "multiple"
                THEN InitialSelections(call.returned.questions)
                ELSE userSelections
          /\ UNCHANGED chatHistory
       \/ /\ call.pc = "threw"
          /\ chatHistory' = Append(chatHistory, ErrorEntry(FALSE, call.file, call.error.what))
          /\ UNCHANGED <<currentChallenge, userSelections>>
    /\ isGenerating' = StillGenerating(call.pc)
    /\ call' = IdleCall
    /\ UNCHANGED <<configVars, currentView, fileVars, userSubmission, modalVars,
                   userInput>>

\* generateOneStepContent after the await
GenerateOneStepSettle ==
    /\ IsTutor /\ Settling /\ call.kind = "onestep"
    /\ \/ /\ call.pc = "returned"
          /\ UNCHANGED chatHistory
       \/ /\ call.pc = "threw"
          /\ chatHistory' = Append(chatHistory, ErrorEntry(FALSE, call.file, call.error.what))
    /\ isGenerating' = StillGenerating(call.pc)
    /\ call' = IdleCall
    /\ UNCHANGED <<configVars, currentView, fileVars, currentChallenge, userSubmission,
                   userSelections, modalVars, userInput>>

\* setCurrentChallenge(prev => ({ ...prev, isCorrected: true })): spreading null
\* gives an object that has isCorrected and nothing else
MarkCorrected(prev) ==
    IF prev.type = "null"
    THEN [NullChallenge EXCEPT !.type = "undefined", !.isCorrected = TRUE]
    ELSE [prev EXCEPT !.isCorrected = TRUE]

\* variant of AfterGrade: the mark is set in the finally block
AfterGrade_Always(pc, prev) == MarkCorrected(prev)

\* try { await handleGeminiCall(...); setCurrentChallenge(mark) } catch {...}:
\* the session after the grade call has resolved or rejected
AfterGrade(pc, prev) == IF pc = "returned" THEN MarkCorrected(prev) ELSE prev

\* handleSubmitChallenge of part_000
HandleSubmitChallenge ==
    /\ variant = "tutor" /\ ~Settling
    /\ ~StartDisabled(isGenerating)
    /\ \/ \* if (!currentChallenge) return;  and a session of neither type
          /\ currentChallenge.type \notin {"multiple", "development"}
          /\ UNCHANGED <<currentChallenge, chatHistory, isGenerating, call>>
       \/ /\ currentChallenge.type = "multiple"
          /\ IF SubmissionIncomplete(AnsweredCount(userSelections),
                                     Len(currentChallenge.questions))
             THEN UNCHANGED <<currentChallenge, chatHistory>>
             ELSE \* handleSubmitMultipleChoice()
                  /\ LogRoom(1)
                  /\ LET graded == GradedChallenge(currentChallenge, userSelections)
                     IN  /\ currentChallenge' = graded
                         /\ chatHistory' =
                               saveMessage(chatHistory, "model", "graded", TRUE,
                                           FALSE, file,
                                           CorrectionData(graded.score, graded.total,
                                                          graded.percentage))
          /\ UNCHANGED <<isGenerating, call>>
       \/ /\ currentChallenge.type = "development"
          /\ IF IsBlank(userSubmission)
             THEN UNCHANGED <<currentChallenge, chatHistory, isGenerating, call>>
             ELSE /\ LogRoom(2)
                  /\ isGenerating' = TRUE
                  /\ LET c == StartedCall("grade", "none", FALSE, GeminiMaxRetries)
                         e == GeminiEnter(c, chatHistory, TRUE)
                     IN  /\ call' = e.call
                         /\ chatHistory' = e.log
                  /\ UNCHANGED currentChallenge
    /\ UNCHANGED <<configVars, currentView, fileVars, userSubmission, userSelections,
                   modalVars, userInput>>

\* handleSubmitChallenge after the await of the grade call
HandleSubmitChallengeSettle ==
    /\ variant = "tutor" /\ Settling /\ call.kind = "grade"
    /\ currentChallenge' = AfterGrade(call.pc, currentChallenge)
    /\ \/ /\ call.pc = "returned"
          /\ UNCHANGED chatHistory
       \/ /\ call.pc = "threw"
          /\ chatHistory' = Append(chatHistory, ErrorEntry(TRUE, call.file, call.error.what))
    /\ isGenerating' = StillGenerating(call.pc)
    /\ call' = IdleCall
    /\ UNCHANGED <<configVars, currentView, fileVars, userSubmission, userSelections,
                   modalVars, userInput>>

\* submitForCorrection of App.jsx up to the await: both kinds of session are
\* sent to the model
SubmitForCorrection ==
    /\ variant = "tutorB" /\ ~Settling
    /\ ~StartDisabled(isGenerating)
    /\ isChallengeActive
    /\ LogRoom(2)
    /\ isGenerating' = TRUE
    /\ LET c == StartedCall("grade", "none", FALSE, GeminiMaxRetries)
           e == GeminiEnter(c, chatHistory, TRUE)
       IN  /\ call' = e.call
           /\ chatHistory' = e.log
    /\ UNCHANGED <<configVars, currentView, fileVars, currentChallenge, userSubmission,
                   userSelections, modalVars, userInput>>

\* submitForCorrection after the await: success discards the session
SubmitForCorrectionSettle ==
    /\ variant = "tutorB" /\ Settling /\ call.kind = "grade"
    /\ \/ /\ call.pc = "returned"
          /\ currentChallenge' = NullChallenge
          /\ userSubmission' = <<>>
          /\ userSelections' = <<>>
          /\ UNCHANGED chatHistory
       \/ /\ call.pc = "threw"
          /\ chatHistory' = Append(chatHistory, ErrorEntry(TRUE, call.file, call.error.what))
          /\ UNCHANGED <<currentChallenge, userSubmission, userSelections>>
    /\ isGenerating' = StillGenerating(call.pc)
    /\ call' = IdleCall
    /\ UNCHANGED <<configVars, currentView, fileVars, modalVars, userInput>>

\* ================================================================= chat
\* the two chat applications: the first one of App.jsx and part_001

\* fetchWithRetries(url, options, maxRetries = 3) / (..., maxRetries = 5)
FetchMaxRetries(v) == IF v = "chat" THEN FetchMaxRetriesApp ELSE FetchMaxRetriesPart1

\* variant of FetchLastAttempt: the catch gives up on the first failure
FetchLastAttempt_NoRetry(i, maxRetries) == i >= 0

\* catch (error) { if (i === maxRetries - 1) throw error; ... await delay(...) }
FetchLastAttempt(i, maxRetries) == i = maxRetries - 1

\* fetchWithRetries, one response: every !response.ok and every rejected fetch
\* is thrown inside the try and lands in the catch
FetchLoop(r, i, maxRetries) ==
    IF r # "neterr" /\ ResponseOk(r) THEN "return"
    ELSE IF FetchLastAttempt(i, maxRetries) THEN "throw"
    ELSE "wait"

\* generateContent after fetchWithRetries returned the response: "throw" or
\* what is returned.  A text that does not parse is thrown in App.jsx and
\* returned as it is in part_001.
ContentResult(v, r, json) ==
    IF r = "empty" THEN "throw"
    ELSE IF json /\ r = "badjson" THEN (IF v = "chat" THEN "throw" ELSE "rawtext")
    ELSE IF json THEN "object"
    ELSE "text"

\* generateContent of App.jsx: if (!API_KEY) throw ...
ContentPrecondition(v, key) == IF v = "chat" /\ ~key THEN "nokey" ELSE "pass"

\* FileUploader.handleFileChange: the button is disabled while isGenerating
UploaderFileChange ==
    /\ IsChat /\ ~Settling
    /\ ~isGenerating
    /\ \/ \* no file, or (App.jsx) validateFile rejects it: a toast at most
          UNCHANGED pendingReads
       \/ \E f \in Files :
             /\ PendingCount(pendingReads) < MaxReads
             /\ pendingReads' = StartRead(pendingReads, f, "reader")
    /\ UNCHANGED <<configVars, currentView, file, fileType, fileContent,
                   isFileContentReady, fileData, isGenerating, currentChallenge,
                   userSubmission, userSelections, modalVars, userInput,
                   chatHistory, call>>

\* reader.onload -> onFileLoad(data) -> handleFileLoad
HandleFileLoad ==
    /\ IsChat /\ ~Settling
    /\ \E f \in Files :
          /\ pendingReads[<<f, "reader">>] > 0
          /\ pendingReads' = EndRead(pendingReads, f, "reader")
          /\ fileData' = f
    /\ chatHistory' = <<ChatEntry("user", "uploaded"), ChatEntry("model", "loaded")>>
    /\ currentChallenge' = NullChallenge
    /\ selectedAnswers' = NoSelected
    /\ submitted' = FALSE
    /\ UNCHANGED <<configVars, currentView, file, fileType, fileContent,
                   isFileContentReady, isGenerating, userSubmission, userSelections,
                   userInput, call>>

\* reader.onerror -> onFileLoad({ error }) -> a toast (App.jsx); part_001 sets
\* no onerror
UploaderError ==
    /\ IsChat /\ ~Settling
    /\ \E f \in Files :
          /\ pendingReads[<<f, "reader">>] > 0
          /\ pendingReads' = EndRead(pendingReads, f, "reader")
    /\ UNCHANGED <<configVars, currentView, file, fileType, fileContent,
                   isFileContentReady, fileData, isGenerating, currentChallenge,
                   userSubmission, userSelections, modalVars, userInput,
                   chatHistory, call>>

\* "Quitar Material": setFileData(null), and in App.jsx setChatHistory([])
QuitarLog(v, log) == IF v = "chat" THEN <<>> ELSE log

QuitarMaterial ==
    /\ IsChat /\ ~Settling
    /\ fileData # NoFile
    /\ fileData' = NoFile
    /\ chatHistory' = QuitarLog(variant, chatHistory)
    /\ UNCHANGED <<configVars, currentView, file, fileType, fileContent,
                   isFileContentReady, pendingReads, isGenerating, currentChallenge,
                   userSubmission, userSelections, modalVars, userInput, call>>

\* onChange of the chat box, disabled while isGenerating
EditUserInput ==
    /\ IsChat /\ ~Settling
    /\ ~isGenerating
    /\ \E t \in Texts : userInput' = t
    /\ UNCHANGED <<configVars, currentView, fileVars, isGenerating, currentChallenge,
                   userSubmission, userSelections, modalVars, chatHistory, call>>

\* processChat up to the await inside fetchWithRetries: setIsGenerating(true),
\* the user entry, then generateContent up to the first fetch
ProcessChatEnter(json) ==
    LET c == [StartedCall("chat", IF json THEN "quiz" ELSE "none", json,
                          FetchMaxRetries(variant))
                 EXCEPT !.file = fileData]
        pre == ContentPrecondition(variant, apiKey)
    IN  IF pre # "pass"
        THEN [c EXCEPT !.pc = "threw",
                       !.error = [status |-> Undefined, attempt |-> 0, what |-> pre]]
        ELSE [c EXCEPT !.pc = "fetch", !.fetches = 1]

\* handleSelectOption: the study-mode buttons, disabled while isGenerating or
\* without material
HandleSelectOption ==
    /\ IsChat /\ ~Settling
    /\ ~StartDisabled(isGenerating)
    /\ fileData # NoFile
    /\ LogRoom(2)
    /\ \E json \in BOOLEAN : call' = ProcessChatEnter(json)
    /\ isGenerating' = TRUE
    /\ chatHistory' = Append(chatHistory, ChatEntry("user", "prompt"))
    /\ UNCHANGED <<configVars, currentView, fileVars, currentChallenge, userSubmission,
                   userSelections, modalVars, userInput>>

\* handleSendChat: if (!userInput.trim() || isGenerating) return;
HandleSendChat ==
    /\ IsChat /\ ~Settling
    /\ IF IsBlank(userInput) \/ StartDisabled(isGenerating)
       THEN UNCHANGED <<call, isGenerating, chatHistory, userInput>>
       ELSE /\ LogRoom(2)
            /\ call' = ProcessChatEnter(FALSE)
            /\ isGenerating' = TRUE
            /\ chatHistory' = Append(chatHistory, ChatEntry("user", "prompt"))
            /\ userInput' = <<>>
    /\ UNCHANGED <<configVars, currentView, fileVars, currentChallenge, userSubmission,
                   userSelections, modalVars>>

\* A fetch of fetchWithRetries comes back; on a returned response
\* generateContent reads and parses the body
FetchReturn ==
    /\ IsChat /\ call.pc = "fetch"
    /\ \E r \in Responses :
          /\ r = "badjson" => call.structured
          /\ LET next == FetchLoop(r, call.attempt, call.maxRetries)
                 seen == Seen(call, r)
                 content == ContentResult(variant, r, call.structured)
             IN  \/ /\ next = "wait"
                    /\ \E jitter \in Jitters :
                          call' = [seen EXCEPT !.pc = "wait", !.waits = @ + 1,
                                               !.delay = Backoff(call.attempt, jitter)]
                 \/ /\ next = "throw"
                    /\ call' = [seen EXCEPT !.pc = "threw",
                                            !.error = ErrorOf(r, call, "http")]
                 \/ /\ next = "return" /\ content = "throw"
                    /\ call' = [seen EXCEPT !.pc = "threw",
                                            !.error = ErrorOf(r, call, r)]
                 \/ /\ next = "return" /\ content # "throw"
                    /\ \E payload \in IF content = "object"
                                      THEN {QuizPayload(qs) : qs \in ModalQuestionLists}
                                      ELSE {TextPayload} :
                          call' = [seen EXCEPT !.pc = "returned",
                                               !.payload = payload,
                                               !.returned = payload]
    /\ UNCHANGED <<configVars, currentView, fileVars, isGenerating, currentChallenge,
                   userSubmission, userSelections, modalVars, userInput, chatHistory>>

\* await delay(waitTime) is over: i++ and the next fetch
FetchDelayElapsed ==
    /\ IsChat /\ call.pc = "wait"
    /\ call' = AfterDelay(call)
    /\ UNCHANGED <<configVars, currentView, fileVars, isGenerating, currentChallenge,
                   userSubmission, userSelections, modalVars, userInput, chatHistory>>

\* processChat after the await of generateContent
ProcessChatSettle ==
    /\ IsChat /\ Settling
    /\ \/ /\ call.pc = "returned" /\ call.returned.kind = "quiz"
          /\ currentChallenge' = NewChallenge("quiz", call.returned.questions)
          /\ chatHistory' = Append(chatHistory, ChatEntry("model", "quiz"))
       \/ /\ call.pc = "returned" /\ call.returned.kind # "quiz"
          /\ chatHistory' = Append(chatHistory, ChatEntry("model", "reply"))
          /\ UNCHANGED currentChallenge
       \/ /\ call.pc = "threw"
          /\ chatHistory' = Append(chatHistory, ChatEntry("model", "error"))
          /\ UNCHANGED currentChallenge
    /\ isGenerating' = StillGenerating(call.pc)
    /\ call' = IdleCall
    /\ UNCHANGED <<configVars, currentView, fileVars, userSubmission, userSelections,
                   modalVars, userInput>>

\* { ...prev, [qIndex]: oIndex }
SetKey(obj, key, value) ==
    [k \in DOMAIN obj \cup {key} |-> IF k = key THEN value ELSE obj[k]]

\* selectedAnswers[qIndex], undefined for a missing key
SelectedAt(selected, qIndex) ==
    IF qIndex \in DOMAIN selected THEN selected[qIndex] ELSE Undefined

\* challenge.questions.forEach(... if (selectedAnswers[qIndex] ===
\* q.correctAnswerIndex) currentScore++ ...)
RECURSIVE CurrentScore(_, _, _)
CurrentScore(questions, selected, n) ==
    IF n = 0 THEN 0
    ELSE CurrentScore(questions, selected, n - 1)
         + (IF SelectedAt(selected, n) = questions[n].correctAnswerIndex
            THEN 1 ELSE 0)

\* Math.round((currentScore / challenge.questions.length) * 100) in App.jsx;
\* the text of part_001 has no percentage
ModalPercentage(v, currentScore, length) ==
    IF v # "chat" THEN NoPercentage
    ELSE IF length = 0 THEN ScorePercentage(currentScore, length)
    ELSE [num |-> RoundHalfUp(ScorePercentage(currentScore, length)), den |-> 1]

\* ExamModal.handleSelect(qIndex, oIndex): if (!submitted) ...
ModalHandleSelect ==
    /\ IsChat /\ ~Settling
    /\ currentChallenge.type = "quiz"
    /\ \E qIndex \in 1..Len(currentChallenge.questions), oIndex \in OptionIndexes :
          selectedAnswers' = IF ~submitted
                             THEN SetKey(selectedAnswers, qIndex, oIndex)
                             ELSE selectedAnswers
    /\ UNCHANGED <<configVars, currentView, fileVars, isGenerating, currentChallenge,
                   userSubmission, userSelections, submitted, userInput, chatHistory,
                   call>>

\* ExamModal.handleSubmit -> onSubmit(resultText) -> handleExamSubmit: two
\* entries, then setCurrentChallenge(null) unmounts the modal.  MaxLog bounds
\* the calls that start, not the exams that end: the log can end up two
\* entries longer.
ModalHandleSubmit ==
    /\ IsChat /\ ~Settling
    /\ currentChallenge.type = "quiz"
    /\ LET length == Len(currentChallenge.questions)
           currentScore == CurrentScore(currentChallenge.questions,
                                        selectedAnswers, length)
       IN  chatHistory' =
              chatHistory \o
              <<ChatEntry("user", "completed"),
                ResultEntry(currentScore, length,
                            ModalPercentage(variant, currentScore, length))>>
    /\ currentChallenge' = NullChallenge
    /\ selectedAnswers' = NoSelected
    /\ submitted' = FALSE
    /\ UNCHANGED <<configVars, currentView, fileVars, isGenerating, userSubmission,
                   userSelections, userInput, call>>

\* onClose: setCurrentChallenge(null)
ModalClose ==
    /\ IsChat /\ ~Settling
    /\ currentChallenge.type = "quiz"
    /\ currentChallenge' = NullChallenge
    /\ selectedAnswers' = NoSelected
    /\ submitted' = FALSE
    /\ UNCHANGED <<configVars, currentView, fileVars, isGenerating, userSubmission,
                   userSelections, userInput, chatHistory, call>>

NextChat ==
    \/ UploaderFileChange
    \/ HandleFileLoad
    \/ UploaderError
    \/ QuitarMaterial
    \/ EditUserInput
    \/ HandleSelectOption
    \/ HandleSendChat
    \/ FetchReturn
    \/ FetchDelayElapsed
    \/ ProcessChatSettle
    \/ ModalHandleSelect
    \/ ModalHandleSubmit
    \/ ModalClose

NextTutor ==
    \/ HandleFileChange
    \/ ReaderOnloadText
    \/ ReaderOnloadImage
    \/ Base64Loaded
    \/ ReaderError
    \/ ClearFile
    \/ TabClick
    \/ EditSubmission
    \/ HandleSelectionChange
    \/ GenerateChallenge
    \/ GenerateOneStepContent
    \/ GeminiFetchReturn
    \/ GeminiDelayElapsed
    \/ GenerateChallengeSettle
    \/ GenerateOneStepSettle
    \/ HandleSubmitChallenge
    \/ HandleSubmitChallengeSettle
    \/ SubmitForCorrection
    \/ SubmitForCorrectionSettle

Next == NextTutor \/ NextChat

Spec == Init /\ [][Next]_vars

\* ============================================================== grading
\* The states right after a quiz has been generated, with up to
\* MaxGradedQuestions questions, and the handlers of the answer forms: the
\* multiple-choice form of part_000 and the ExamModal of App.jsx.
MaxGradedQuestions == 3

InitGrader ==
    /\ variant \in {"tutor", "chat"}
    /\ apiKey = TRUE
    /\ currentView = "EXAM_MULTIPLE"
    /\ file = IF variant = "tutor" THEN "notes.txt" ELSE NoFile
    /\ fileType = IF variant = "tutor" THEN MimeOf("notes.txt") ELSE NoType
    /\ fileContent = IF variant = "tutor" THEN [of |-> "notes.txt", enc |-> "text"]
                     ELSE [of |-> NoFile, enc |-> "none"]
    /\ isFileContentReady = (variant = "tutor")
    /\ pendingReads = NoReads
    /\ fileData = IF variant = "tutor" THEN NoFile ELSE "notes.txt"
    /\ isGenerating = FALSE
    /\ \/ /\ variant = "tutor"
          /\ \E qs \in SeqsUpTo(Question, MaxGradedQuestions) :
                /\ currentChallenge = NewChallenge("multiple", qs)
                /\ userSelections = InitialSelections(qs)
          /\ chatHistory =
                saveMessage(saveMessage(<<>>, "user", "prompt", FALSE, FALSE,
                                        "notes.txt", NoData),
                            "model", "reply", FALSE, FALSE, "notes.txt", ChallengeData)
       \/ /\ variant = "chat"
          /\ \E qs \in SeqsUpTo(ModalQuestion, MaxGradedQuestions) :
                currentChallenge = NewChallenge("quiz", qs)
          /\ userSelections = <<>>
          /\ chatHistory = <<ChatEntry("user", "uploaded"), ChatEntry("model", "loaded"),
                             ChatEntry("user", "prompt"), ChatEntry("model", "quiz")>>
    /\ userSubmission = <<>>
    /\ selectedAnswers = NoSelected
    /\ submitted = FALSE
    /\ userInput = <<>>
    /\ call = IdleCall

NextGrader ==
    \/ HandleSelectionChange
    \/ HandleSubmitChallenge
    \/ ModalHandleSelect
    \/ ModalHandleSubmit

SpecGrader == InitGrader /\ [][NextGrader]_vars

\* =========================================================== progress
\* part_000 with a transport that answers every fetch and timers that fire:
\* a fetch that is outstanding comes back, a backoff wait ends, and the
\* continuation of a settled call runs.
InitLive == Init /\ variant = "tutor"

NextLive ==
    \/ HandleFileChange
    \/ ReaderOnloadText
    \/ ReaderOnloadImage
    \/ Base64Loaded
    \/ ReaderError
    \/ ClearFile
    \/ TabClick
    \/ EditSubmission
    \/ HandleSelectionChange
    \/ GenerateChallenge
    \/ GenerateOneStepContent
    \/ GeminiFetchReturn
    \/ GeminiDelayElapsed
    \/ GenerateChallengeSettle
    \/ GenerateOneStepSettle
    \/ HandleSubmitChallenge
    \/ HandleSubmitChallengeSettle

SpecLive ==
    /\ InitLive /\ [][NextLive]_vars
    /\ WF_vars(GeminiFetchReturn)
    /\ WF_vars(GeminiDelayElapsed)
    /\ WF_vars(GenerateChallengeSettle)
    /\ WF_vars(GenerateOneStepSettle)
    /\ WF_vars(HandleSubmitChallengeSettle)

\* ============================================================ pass mark
\* The multiple-choice form of part_000 with every question answered, for
\* every number of questions up to MaxPassQuestions and every number of right
\* answers: the answer key is "A" throughout, the first correctCount
\* selections are "A" and the others "B".  The submit handler grades it.
MaxPassQuestions == 42

AnsweredQuiz(totalCount) == [i \in 1..totalCount |-> [correct_answer |-> "A"]]
AnsweredSelections(correctCount, totalCount) ==
    [i \in 1..totalCount |-> IF i <= correctCount THEN "A" ELSE "B"]

InitPassing ==
    /\ variant = "tutor"
    /\ apiKey = TRUE
    /\ currentView = "EXAM_MULTIPLE"
    /\ file = "notes.txt"
    /\ fileType = MimeOf("notes.txt")
    /\ fileContent = [of |-> "notes.txt", enc |-> "text"]
    /\ isFileContentReady = TRUE
    /\ pendingReads = NoReads
    /\ fileData = NoFile
    /\ isGenerating = FALSE
    /\ \E totalCount \in 1..MaxPassQuestions :
          \E correctCount \in 0..totalCount :
             /\ currentChallenge = NewChallenge("multiple", AnsweredQuiz(totalCount))
             /\ userSelections = AnsweredSelections(correctCount, totalCount)
    /\ chatHistory =
          saveMessage(saveMessage(<<>>, "user", "prompt", FALSE, FALSE,
                                  "notes.txt", NoData),
                      "model", "reply", FALSE, FALSE, "notes.txt", ChallengeData)
    /\ userSubmission = <<>>
    /\ selectedAnswers = NoSelected
    /\ submitted = FALSE
    /\ userInput = <<>>
    /\ call = IdleCall

NextPassing == HandleSubmitChallenge

SpecPassing == InitPassing /\ [][NextPassing]_vars

\* ======================================================== option labels
\* The multiple-choice form of the tabbed applications showing one question
\* with two options whose texts are any strings of up to MaxOptionText
\* characters over a letter, a full stop and a blank; the option rows are
\* clicked.
MaxOptionText == 4

OptionChars == {"a", ".", " "}
OptionTexts == SeqsUpTo(OptionChars, MaxOptionText)
NoMatch == "nomatch"

\* option.trim().match(/^([A-Z])[\.\)]?\s/i): a letter, then '.' or ')' or
\* neither, then white space; gives the letter, or no match
OptionMatch(option) ==
    LET s == Trim(option)
    IN  IF Len(s) >= 2 /\ s[1] = "a" /\ s[2] = " " THEN s[1]
        ELSE IF Len(s) >= 3 /\ s[1] = "a" /\ s[2] = "." /\ s[3] = " " THEN s[1]
        ELSE NoMatch

\* String.prototype.toUpperCase on the letter in use
ToUpperCase(c) == IF c = "a" THEN "A" ELSE c

\* String.fromCharCode(65 + oIndex)
PositionLetter(oIndex) == IF oIndex = 0 THEN "A" ELSE "B"

\* const optionLetter = optionMatch ? optionMatch[1].toUpperCase()
\*                                  : String.fromCharCode(65 + oIndex)
OptionLetter(option, oIndex) ==
    IF OptionMatch(option) # NoMatch THEN ToUpperCase(OptionMatch(option))
    ELSE PositionLetter(oIndex)

\* const isSelected = userSelections[qIndex] === optionLetter, for the option
\* at oIndex (from 0) of the question at qIndex (from 1 here)
IsSelected(qIndex, oIndex) ==
    userSelections[qIndex] =
        OptionLetter(currentChallenge.questions[qIndex].options[oIndex + 1], oIndex)

InitLabels ==
    /\ variant \in TutorVariants
    /\ apiKey = TRUE
    /\ currentView = "EXAM_MULTIPLE"
    /\ file = "notes.txt"
    /\ fileType = MimeOf("notes.txt")
    /\ fileContent = [of |-> "notes.txt", enc |-> "text"]
    /\ isFileContentReady = TRUE
    /\ pendingReads = NoReads
    /\ fileData = NoFile
    /\ isGenerating = FALSE
    /\ \E first, second \in OptionTexts :
          currentChallenge =
             NewChallenge("multiple",
                          <<[correct_answer |-> "A", options |-> <<first, second>>]>>)
    /\ userSelections = <<NoAnswer>>
    /\ chatHistory =
          saveMessage(saveMessage(<<>>, "user", "prompt", FALSE, FALSE,
                                  "notes.txt", NoData),
                      "model", "reply", FALSE, FALSE, "notes.txt", ChallengeData)
    /\ userSubmission = <<>>
    /\ selectedAnswers = NoSelected
    /\ submitted = FALSE
    /\ userInput = <<>>
    /\ call = IdleCall

\* onClick of an option row: handleSelectionChange(qIndex, optionLetter) with
\* the letter derived for that row
OptionRowClick ==
    /\ IsTutor /\ ~Settling
    /\ currentChallenge.type = "multiple"
    /\ \E qIndex \in 1..Len(currentChallenge.questions), oIndex \in {0, 1} :
          userSelections' =
              IF SelectionChangeAllowed(variant, currentChallenge)
              THEN [userSelections EXCEPT
                       ![qIndex] = OptionLetter(
                                      currentChallenge.questions[qIndex].options[oIndex + 1],
                                      oIndex)]
              ELSE userSelections
    /\ UNCHANGED <<configVars, currentView, fileVars, isGenerating, currentChallenge,
                   userSubmission, modalVars, userInput, chatHistory, call>>

NextLabels == OptionRowClick

SpecLabels == InitLabels /\ [][NextLabels]_vars

\* =============================================================== claims

\* C1: in both retry loops, a call whose fetches came back 429 on attempts
\* 1..k-1 and with a usable 200 on attempt k <= maxRetries has returned the
\* payload of that response after exactly k fetches (and k-1 backoff waits);
\* a call that has seen nothing but 429 on fewer than maxRetries attempts has
\* not given up.
C1_RetryThenSuccess ==
    /\ (call.last = "ok" /\ call.prior429 /\ call.answered >= 1) =>
          /\ call.pc = "returned"
          /\ call.payload # NoPayload /\ call.returned = call.payload
          /\ call.answered <= call.maxRetries
          /\ call.fetches = call.answered
          /\ call.waits = call.answered - 1
    /\ (call.last = "429" /\ call.prior429 /\ call.answered < call.maxRetries) =>
          call.pc \in {"wait", "fetch"}

\* a call that succeeded on its last allowed attempt, after 429 on all others
C1_Witness ==
    /\ call.pc = "returned" /\ call.last = "ok" /\ call.prior429
    /\ call.answered = call.maxRetries /\ call.maxRetries >= GeminiMaxRetries

\* C2: a call whose first fetch came back with HTTP 400 or 500 has failed
\* after that one fetch, without a backoff wait, with an error that carries
\* the status.
C2_FatalOnFirstAttempt ==
    (call.answered = 1 /\ call.last \in {"400", "500"}) =>
        /\ call.pc = "threw"
        /\ call.fetches = 1 /\ call.waits = 0
        /\ call.error.status = StatusOf(call.last)

\* C3: a call whose fetches all came back 429 fails, and only after exactly
\* maxRetries fetches; the error is the one of the last attempt (status 429,
\* attempt maxRetries).
C3_ExhaustedAfterMaxRetries ==
    /\ (call.last = "429" /\ call.prior429 /\ call.answered = call.maxRetries) =>
          /\ call.pc = "threw"
          /\ call.fetches = call.maxRetries
          /\ call.error.status = 429 /\ call.error.attempt = call.maxRetries
    /\ (call.last = "429" /\ call.prior429 /\ Settling) =>
          call.pc = "threw" /\ call.answered = call.maxRetries

\* fetchWithRetries of part_001 gave up after five 429 responses
C3_Witness ==
    /\ call.pc = "threw" /\ call.last = "429" /\ call.prior429
    /\ call.fetches = FetchMaxRetriesPart1

\* C4: handleSubmitChallenge on a session that awaits answers, with a
\* question still at "no answer" (multiple choice) or a blank text (open
\* response), changes neither the session nor the answers nor the log and
\* starts no call.
C4_IncompleteSubmissionRejected ==
    [][(/\ HandleSubmitChallenge
        /\ ~currentChallenge.isCorrected
        /\ \/ /\ currentChallenge.type = "multiple"
              /\ \E i \in DOMAIN userSelections : userSelections[i] = NoAnswer
           \/ /\ currentChallenge.type = "development"
              /\ IsBlank(userSubmission))
       => /\ UNCHANGED <<currentChallenge, userSelections, userSubmission,
                         chatHistory, call, isGenerating>>
          /\ call'.fetches = 0]_vars

\* a multiple-choice form with one question answered and one not, where the
\* submit handler returns early
C4_Witness ==
    /\ variant = "tutor" /\ call.pc = "idle" /\ ~isGenerating
    /\ currentChallenge.type = "multiple" /\ ~currentChallenge.isCorrected
    /\ \E i \in DOMAIN userSelections : userSelections[i] = NoAnswer
    /\ \E i \in DOMAIN userSelections : userSelections[i] # NoAnswer

\* C5 as stated, for both submit handlers: a step of handleSubmitChallenge
\* or submitForCorrection on a multiple-choice session that has questions,
\* every one of them answered, grades it in that step, with the score and total of the local
\* grader, and starts no call.
C5_GradedWithoutCall ==
    [][(/\ HandleSubmitChallenge \/ SubmitForCorrection
        /\ currentChallenge.type = "multiple" /\ ~currentChallenge.isCorrected
        /\ Len(currentChallenge.questions) > 0
        /\ \A i \in DOMAIN userSelections : userSelections[i] # NoAnswer)
       => /\ currentChallenge'.isCorrected
          /\ currentChallenge'.score =
                Cardinality({i \in 1..Len(currentChallenge.questions) :
                                userSelections[i] =
                                    currentChallenge.questions[i].correct_answer})
          /\ currentChallenge'.total = Len(currentChallenge.questions)
          /\ call' = IdleCall /\ ~isGenerating']_vars

\* C5: in part_000 a step of handleSubmitChallenge on a fully answered
\* multiple-choice session grades it in that step (score = number of
\* matching answers, total = number of questions) and starts no call; in
\* App.jsx submitForCorrection starts a grade call instead and leaves the
\* session ungraded.
C5_LocalGradeInPart000 ==
    [][/\ (/\ HandleSubmitChallenge
           /\ currentChallenge.type = "multiple" /\ ~currentChallenge.isCorrected
           /\ \A i \in DOMAIN userSelections : userSelections[i] # NoAnswer)
          => /\ currentChallenge'.isCorrected
             /\ currentChallenge'.score =
                   Cardinality({i \in 1..Len(currentChallenge.questions) :
                                   userSelections[i] =
                                       currentChallenge.questions[i].correct_answer})
             /\ currentChallenge'.total = Len(currentChallenge.questions)
             /\ call' = IdleCall /\ ~isGenerating'
       /\ (SubmitForCorrection /\ currentChallenge.type = "multiple")
          => /\ call'.kind = "grade" /\ isGenerating'
             /\ call'.pc = "fetch" \/ call'.error.what = "notready"
             /\ currentChallenge' = currentChallenge]_vars

\* a two-question session of part_000 graded with one answer right and one
\* wrong, no call in flight
C5_Witness ==
    /\ variant = "tutor" /\ currentChallenge.type = "multiple"
    /\ currentChallenge.isCorrected
    /\ currentChallenge.total = 2 /\ currentChallenge.score = 1
    /\ call = IdleCall

C7_OneEntryPerStep ==
    [][\/ chatHistory' = chatHistory
       \/ /\ Len(chatHistory') = Len(chatHistory) + 1
          /\ SubSeq(chatHistory', 1, Len(chatHistory)) = chatHistory
       \/ /\ chatHistory' = <<>>
          /\ \/ file # NoFile /\ file' = NoFile
             \/ fileData # NoFile /\ fileData' = NoFile]_vars

\* C7: every step leaves the log as it is, or appends one entry at the end,
\* or appends the two entries of handleExamSubmit at the end, or replaces the
\* whole log: by the empty log when the material is removed, by the two
\* entries of handleFileLoad when material is loaded.  Earlier entries are
\* never edited, reordered or removed one by one.
C7_AppendOrReplace ==
    [][\/ chatHistory' = chatHistory
       \/ /\ Len(chatHistory') = Len(chatHistory) + 1
          /\ SubSeq(chatHistory', 1, Len(chatHistory)) = chatHistory
       \/ /\ IsChat /\ currentChallenge.type = "quiz" /\ currentChallenge'.type = "null"
          /\ Len(chatHistory') = Len(chatHistory) + 2
          /\ SubSeq(chatHistory', 1, Len(chatHistory)) = chatHistory
       \/ /\ chatHistory' = <<>>
          /\ \/ file # NoFile /\ file' = NoFile
             \/ fileData # NoFile /\ fileData' = NoFile
       \/ /\ IsChat /\ fileData' # NoFile
          /\ PendingCount(pendingReads') < PendingCount(pendingReads)
          /\ chatHistory' = <<ChatEntry("user", "uploaded"),
                              ChatEntry("model", "loaded")>>]_vars

\* a log that an exam result was added to, after the entries of one call
C7_Witness ==
    /\ Len(chatHistory) >= 4
    /\ chatHistory[Len(chatHistory)].text = "result"
    /\ chatHistory[Len(chatHistory) - 1].text = "completed"

\* C8: from a graded session, every step that does not discard the session
\* leaves the session (its result included), the selections and the free
\* text exactly as they are.
C8_GradedIsFrozen ==
    [][(currentChallenge.isCorrected /\ currentChallenge'.type # "null")
       => UNCHANGED <<currentChallenge, userSelections, userSubmission>>]_vars

\* a graded multiple-choice form, whose option rows still call
\* handleSelectionChange
C8_Witness ==
    /\ variant = "tutor" /\ currentChallenge.type = "multiple"
    /\ currentChallenge.isCorrected
    /\ Len(currentChallenge.questions) = MaxQuestions
    /\ currentChallenge.score < currentChallenge.total

\* C9: handleSubmitChallenge on an open-response session with non-blank text
\* starts one grade call and leaves the session ungraded; an open-response
\* session becomes graded only in the step that follows the return of a grade
\* call; when the grade call has failed, the next step leaves the session and
\* the text as they are (ungraded, the text that was submitted, unless the
\* session was discarded in between) and appends an error entry.
C9_GradedOnlyAfterSuccess ==
    [][/\ (/\ HandleSubmitChallenge
           /\ currentChallenge.type = "development" /\ ~currentChallenge.isCorrected
           /\ ~IsBlank(userSubmission))
          => /\ call'.kind = "grade" /\ call'.fetches <= 1
             /\ (GeminiPrecondition(variant, file, isFileContentReady, apiKey) = "pass")
                   => (call'.pc = "fetch" /\ call'.fetches = 1)
             /\ UNCHANGED <<currentChallenge, userSubmission>>
       /\ (/\ currentChallenge.type = "development"
           /\ ~currentChallenge.isCorrected /\ currentChallenge'.isCorrected)
          => call.kind = "grade" /\ call.pc = "returned"
       /\ (IsTutor /\ call.kind = "grade" /\ call.pc = "threw" /\ call' # call)
          => /\ UNCHANGED <<currentChallenge, userSubmission>>
             /\ (currentChallenge.type = "development" /\ ~call.session.isCorrected)
                   => /\ ~currentChallenge'.isCorrected
                      /\ userSubmission' = call.text
             /\ Len(chatHistory') = Len(chatHistory) + 1
             /\ SubSeq(chatHistory', 1, Len(chatHistory)) = chatHistory
             /\ chatHistory'[Len(chatHistory')].isError]_vars

\* part_000 after a failed grade call: the session still awaits its answer,
\* the text is there and the log ends with the error entry
C9_Witness ==
    /\ variant = "tutor" /\ call.pc = "idle"
    /\ currentChallenge.type = "development" /\ ~currentChallenge.isCorrected
    /\ ~IsBlank(userSubmission)
    /\ Len(chatHistory) >= 2
    /\ chatHistory[Len(chatHistory)].isError
    /\ chatHistory[Len(chatHistory)].isSubmission
    /\ chatHistory[Len(chatHistory) - 1].role = "user"

\* C10: the step that issues the first fetch of a call appends exactly one
\* entry, a user entry; no later step of the call up to its return or throw
\* touches the log, however many attempts are made; a call that succeeds
\* appends exactly one model entry (handleGeminiCall in the step that returns,
\* processChat in the step after the return).
C10_OneUserOneModelEntry ==
    [][/\ (call.fetches = 0 /\ call'.fetches = 1)
          => /\ Len(chatHistory') = Len(chatHistory) + 1
             /\ SubSeq(chatHistory', 1, Len(chatHistory)) = chatHistory
             /\ chatHistory'[Len(chatHistory')].role = "user"
       /\ (InFlight /\ call' # call /\ call'.pc \in {"fetch", "wait", "threw"})
          => chatHistory' = chatHistory
       /\ (InFlight /\ call'.pc = "returned")
          => IF IsTutor /\ call'.last = "ok"
             THEN /\ Len(chatHistory') = Len(chatHistory) + 1
                  /\ SubSeq(chatHistory', 1, Len(chatHistory)) = chatHistory
                  /\ chatHistory'[Len(chatHistory')].role = "model"
                  /\ ~chatHistory'[Len(chatHistory')].isError
             ELSE chatHistory' = chatHistory
       /\ (call.pc = "returned" /\ call' # call)
          => IF IsTutor
             THEN chatHistory' = chatHistory
             ELSE /\ Len(chatHistory') = Len(chatHistory) + 1
                  /\ SubSeq(chatHistory', 1, Len(chatHistory)) = chatHistory
                  /\ chatHistory'[Len(chatHistory')].role = "model"
                  /\ chatHistory'[Len(chatHistory')].text # "error"]_vars

\* handleGeminiCall returned on its third attempt: the log ends with the one
\* user entry and the one model entry of the call
C10_Witness ==
    /\ IsTutor /\ call.pc = "returned" /\ call.fetches = GeminiMaxRetries
    /\ Len(chatHistory) >= 2
    /\ chatHistory[Len(chatHistory)].role = "model"
    /\ chatHistory[Len(chatHistory) - 1].role = "user"
    /\ (Len(chatHistory) >= 3 => chatHistory[Len(chatHistory) - 2].role # "user")

\* C11: in the tabbed applications a generation call that has failed, whatever
\* the failure (material not ready, no credential, HTTP status, network,
\* empty or malformed output), is caught by the operation that awaited it:
\* the step that follows appends exactly one entry to the log, a model entry
\* with isError set whose text carries the message of the error, ends the call
\* and clears isGenerating.
C11_FailureLoggedOnce ==
    [][(IsTutor /\ call.pc = "threw" /\ call' # call)
          => /\ Len(chatHistory') = Len(chatHistory) + 1
             /\ SubSeq(chatHistory', 1, Len(chatHistory)) = chatHistory
             /\ chatHistory'[Len(chatHistory')].role = "model"
             /\ chatHistory'[Len(chatHistory')].isError
             /\ chatHistory'[Len(chatHistory')].text = call.error.what
             /\ chatHistory'[Len(chatHistory')].isSubmission = (call.kind = "grade")
             /\ call' = IdleCall /\ ~isGenerating']_vars

\* two failures of different kinds, each logged with its own message: a call
\* made before the material was ready, then one whose answers were all empty
C11_Witness ==
    /\ IsTutor /\ call.pc = "idle" /\ ~isGenerating
    /\ \E i, j \in DOMAIN chatHistory :
          /\ i < j
          /\ chatHistory[i].isError /\ chatHistory[i].text = "notready"
          /\ chatHistory[j].isError /\ chatHistory[j].text = "empty"
          /\ chatHistory[j - 1].role = "user"

\* C12: when structured output was requested and the text of a 2xx response
\* does not parse, the call has failed with the malformed-output error as soon
\* as that response is in: no backoff wait and no further attempt follow it
\* (handleGeminiCall of part_000, generateContent of App.jsx).
C12_MalformedFailsAtOnce ==
    (/\ variant \in {"tutor", "chat"}
     /\ call.structured /\ call.last = "badjson")
       => /\ call.pc = "threw"
          /\ call.error.what = "badjson"
          /\ call.fetches = call.answered

\* C13: a discarded session is gone for good.  From a state without a session
\* the only step that gives one is the step after the return of a create call,
\* and the session it gives is new and ungraded; in particular the completion
\* of a grade call whose session was discarded while the call was in flight
\* does not give a graded session.
C13_DiscardedStaysDiscarded ==
    [][(IsTutor /\ currentChallenge.type = "null" /\ currentChallenge'.type # "null")
          => /\ call.kind = "create" /\ call.pc = "returned"
             /\ ~currentChallenge'.isCorrected]_vars

\* C14: right after an explicit removal of the material (clearFile of the
\* tabbed applications, "Quitar Material" of the chat applications) there is
\* no material and no active session.
C14_RemovalDiscardsSession ==
    [][(ClearFile \/ QuitarMaterial)
          => /\ file' = NoFile /\ fileData' = NoFile /\ ~isFileContentReady'
             /\ currentChallenge'.type = "null"]_vars

\* C15 as stated: a step of material removal, tab switch or modal close that
\* discards the active session leaves the log exactly as it was.
C15_DiscardKeepsLog ==
    [][(isChallengeActive /\ (ClearFile \/ TabClick \/ ModalClose))
          => currentChallenge'.type = "null" /\ chatHistory' = chatHistory]_vars

\* C15: in the tabbed applications an active session can be discarded by a
\* tab click whenever no call is outstanding and by clearFile whenever a file
\* is set.  A step that discards the active session keeps every recorded
\* entry, at its place, with two exceptions that reset the log: clearFile of
\* part_000 empties it and a newly loaded file in the chat applications
\* replaces it by the two entries of the upload.
C15_DiscardAndLog ==
    /\ [](IsTutor /\ isChallengeActive /\ ~Settling
             => /\ ~isGenerating => ENABLED TabClick
                /\ file # NoFile => ENABLED ClearFile)
    /\ [][(isChallengeActive /\ currentChallenge'.type = "null")
             => IF variant = "tutor" /\ file # NoFile /\ file' = NoFile
                THEN chatHistory' = <<>>
                ELSE IF IsChat /\ pendingReads' # pendingReads
                THEN chatHistory' = <<ChatEntry("user", "uploaded"),
                                      ChatEntry("model", "loaded")>>
                ELSE /\ Len(chatHistory') >= Len(chatHistory)
                     /\ SubSeq(chatHistory', 1, Len(chatHistory)) = chatHistory]_vars

\* part_000 with no session, while the log still ends with the exam that a
\* create call returned: that session was discarded by a tab click
C15_Witness ==
    /\ variant = "tutor" /\ call.pc = "idle"
    /\ currentChallenge.type = "null"
    /\ Len(chatHistory) >= 2
    /\ chatHistory[Len(chatHistory)].correctionData = ChallengeData

\* C16: at most one generation call is outstanding at any time.  The state
\* holds one call; a step that starts a call (the call of the next state has
\* not seen a response yet) is taken only when no call is outstanding, and a
\* call that is outstanding has isGenerating set, which keeps the starting
\* controls off until the step that ends the call clears it.
C16_OneCallOutstanding ==
    /\ [](call.pc # "idle" => isGenerating)
    /\ [][(call' # call /\ call'.pc # "idle" /\ call'.answered = 0)
             => call = IdleCall /\ ~isGenerating /\ isGenerating']_vars

\* a chat call waiting out a backoff while the send handler is invoked again
\* with text in the box: it returns at its isGenerating test
C16_Witness ==
    /\ IsChat /\ call.pc = "wait" /\ isGenerating
    /\ ~IsBlank(userInput)

\* C17: in the tabbed applications a session that awaits its answers appears
\* only in the step that follows the successful return of a create call of
\* generateChallenge: it is the new session of the requested type, every
\* question of a multiple-choice session has the selection null and the text of
\* an open-response session is empty.  The step that follows a failed create
\* call leaves no session.
C17_AwaitingOnlyAfterCreate ==
    [][IsTutor
          => /\ (/\ currentChallenge' # currentChallenge
                 /\ currentChallenge'.type # "null"
                 /\ ~currentChallenge'.isCorrected)
                => /\ call.kind = "create" /\ call.pc = "returned" /\ call.last = "ok"
                   /\ currentChallenge' = NewChallenge(call.type, call.returned.questions)
                   /\ currentChallenge'.type = "multiple"
                         => /\ DOMAIN userSelections' =
                                  1..Len(currentChallenge'.questions)
                            /\ \A i \in DOMAIN userSelections' :
                                  userSelections'[i] = NoAnswer
                   /\ currentChallenge'.type = "development"
                         => userSubmission' = <<>>
             /\ (call.kind = "create" /\ call.pc = "threw" /\ call' # call)
                => currentChallenge'.type = "null"]_vars

\* a multiple-choice session right after its create call returned: the log
\* ends with the exam and no question has a selection
C17_Witness ==
    /\ IsTutor /\ call.pc = "idle"
    /\ currentChallenge.type = "multiple" /\ ~currentChallenge.isCorrected
    /\ Len(currentChallenge.questions) = MaxQuestions
    /\ \A i \in DOMAIN userSelections : userSelections[i] = NoAnswer
    /\ chatHistory # <<>>
    /\ chatHistory[Len(chatHistory)].correctionData = ChallengeData

C19_AnswerKeyIsAnOption ==
    (IsTutor /\ currentChallenge.type = "multiple")
       => \A i \in 1..Len(currentChallenge.questions) :
             currentChallenge.questions[i].correct_answer \in Letters

\* C20: a graded multiple-choice session passes exactly when
\* round(100 * correctCount / totalCount) >= 60, and both the severity of the
\* toast at grading time and the colour of the banner of the stored result say
\* so, for every correctCount and totalCount.
C20_PassingIffRounded60 ==
    (/\ variant = "tutor" /\ currentChallenge.type = "multiple"
     /\ currentChallenge.isCorrected /\ currentChallenge.total > 0)
       => LET pct == ScorePercentage(currentChallenge.score, currentChallenge.total)
              passing == RoundHalfUp(pct) >= PassMark
          IN  /\ (ToastType(pct) = "success") = passing
              /\ BannerPassing(currentChallenge) = passing

\* C21: within one call the attempts are sequential and bounded.  At most
\* maxRetries fetches are made; the fetches made and the responses seen differ
\* by one exactly while a fetch is outstanding and are equal otherwise, so two
\* attempts are never outstanding together; and a further fetch is made only
\* by the step that ends a backoff wait, when every earlier fetch has been
\* answered and each of them was followed by its wait.
C21_AttemptsSequentialBounded ==
    /\ [](/\ call.fetches <= call.maxRetries
          /\ call.fetches - call.answered = (IF call.pc = "fetch" THEN 1 ELSE 0))
    /\ [][(call.pc # "idle" /\ call'.fetches = call.fetches + 1)
             => /\ call.pc = "wait" /\ call'.pc = "fetch"
                /\ call.answered = call.fetches
                /\ call.waits = call.fetches
                /\ call'.attempt = call.attempt + 1
                /\ call'.fetches = call'.attempt + 1]_vars

\* the last attempt of a call of part_001: the fifth fetch is outstanding,
\* four responses have been seen and four waits are over
C21_Witness ==
    /\ variant = "chat1" /\ call.pc = "fetch"
    /\ call.fetches = FetchMaxRetriesPart1
    /\ call.answered = FetchMaxRetriesPart1 - 1
    /\ call.waits = FetchMaxRetriesPart1 - 1

\* C22: the wait that follows the attempt with zero-based index i asks for at
\* least 2^i * 1000 ms and less than 2^i * 1000 + 1000 ms, whether it follows
\* a 429 or a thrown error, and there is no wait after the last allowed
\* attempt: a call that waits has an attempt left.
C22_BackoffWindow ==
    call.pc = "wait"
       => /\ call.delay >= (2 ^ call.attempt) * 1000
          /\ call.delay < (2 ^ call.attempt) * 1000 + 1000
          /\ call.attempt < call.maxRetries - 1
          /\ call.waits = call.attempt + 1

\* part_000 waiting after a 429 on its second attempt, for the longest time
\* the jitter allows
C22_Witness ==
    /\ variant = "tutor" /\ call.pc = "wait"
    /\ call.attempt = 1 /\ call.last = "429"
    /\ call.delay = 2999

\* C23 as stated: in part_000 an entry of the log has something in its
\* correctionData field exactly when it is the model entry that reports a
\* locally graded multiple-choice submission.
C23_MetadataOnlyOnLocalGrade ==
    variant = "tutor"
       => \A i \in DOMAIN chatHistory :
             (chatHistory[i].correctionData # NoData)
                <=> (chatHistory[i].role = "model" /\ chatHistory[i].text = "graded")

\* C23: in the tabbed applications the correctionData field of an entry holds
\* a grading summary (type 'correction') exactly when the entry is the model
\* entry of a locally graded multiple-choice submission, which only part_000
\* writes; it holds the generated exam on model replies to a create call and
\* on nothing else; user entries, error entries and the replies to an
\* open-response submission have the field empty.
C23_MetadataByKindOfEntry ==
    IsTutor
       => \A i \in DOMAIN chatHistory :
             LET e == chatHistory[i]
             IN  /\ (e.correctionData.type = "correction")
                       <=> (e.role = "model" /\ e.text = "graded")
                 /\ e.correctionData.type = "correction"
                       => /\ variant = "tutor" /\ e.isSubmission /\ ~e.isError
                          /\ e.correctionData.score >= 0
                          /\ e.correctionData.score <= e.correctionData.total
                 /\ e.correctionData.type = "challenge"
                       => /\ e.role = "model" /\ e.text = "reply"
                          /\ ~e.isSubmission /\ ~e.isError
                 /\ (e.role = "user" \/ e.isError \/ (e.isSubmission /\ e.text = "reply"))
                       => e.correctionData = NoData
                 /\ e.correctionData.type \in {"none", "challenge", "correction"}

\* a log of part_000 that holds the exam of a create call and, after it, the
\* summary of its local grading
C23_Witness ==
    /\ variant = "tutor"
    /\ \E i, j \in DOMAIN chatHistory :
          /\ i < j
          /\ chatHistory[i].correctionData = ChallengeData
          /\ chatHistory[j].correctionData.type = "correction"
          /\ chatHistory[j].correctionData.total = MaxQuestions

\* C24: in the tabbed applications, whenever isFileContentReady is set the
\* stored content was read from the file that is selected now, and it is
\* base64 exactly when the current type is not a text type.
C24_ReadyContentIsCurrent ==
    (IsTutor /\ isFileContentReady)
       => /\ file # NoFile
          /\ fileContent.of = file
          /\ (fileContent.enc = "base64") <=> IsImage(fileType)

\* C25: in part_000 no session is active while no file is selected, whatever
\* the interleaving of clearFile with a create call in flight.
C25_NoSessionWithoutMaterial ==
    (variant = "tutor" /\ isChallengeActive) => file # NoFile

\* C26 as stated: in part_000 a run of handleSubmitChallenge on a graded
\* session changes nothing.
C26_ResubmitChangesNothing ==
    [][(HandleSubmitChallenge /\ currentChallenge.isCorrected) => UNCHANGED vars]_vars

\* C26: a run of handleSubmitChallenge on a graded session leaves the session
\* with its result, the selections and the text as they are, but it is not
\* without effect: on a multiple-choice session the result is computed again,
\* comes out the same and is appended to the log once more, without a call;
\* on an open-response session with text a further grade call is started.
\* Only the session that a grade call marked after its session had been
\* discarded, which has no type, is left alone by the handler.
C26_ResubmitKeepsSession ==
    [][(HandleSubmitChallenge /\ currentChallenge.isCorrected)
          => /\ UNCHANGED <<currentChallenge, userSelections, userSubmission>>
             /\ currentChallenge.type = "multiple"
                   => /\ chatHistory' =
                            Append(chatHistory,
                                   Entry("model", "graded", TRUE, FALSE, file,
                                         CorrectionData(currentChallenge.score,
                                                        currentChallenge.total,
                                                        currentChallenge.percentage)))
                      /\ UNCHANGED <<call, isGenerating>>
             /\ (currentChallenge.type = "development" /\ ~IsBlank(userSubmission))
                   => /\ call'.kind = "grade" /\ call'.pc \in {"fetch", "threw"}
                      /\ isGenerating'
             /\ currentChallenge.type = "undefined" => UNCHANGED vars]_vars

\* part_000 after a second run of the handler on a graded multiple-choice
\* session: the log ends with the same summary twice
C26_Witness ==
    /\ variant = "tutor" /\ currentChallenge.type = "multiple"
    /\ currentChallenge.isCorrected
    /\ Len(chatHistory) >= 2
    /\ chatHistory[Len(chatHistory)].text = "graded"
    /\ chatHistory[Len(chatHistory) - 1] = chatHistory[Len(chatHistory)]
    /\ Len(currentChallenge.questions) > 0

\* C27: every model entry that a generation call has appended on success (the
\* reply, or the announcement of the quiz in the chat applications) has,
\* earlier in the same log, the user entry that the call appended when it
\* started; also when the log was emptied while the call was in flight.
C27_ReplyAfterItsPrompt ==
    \A i \in DOMAIN chatHistory :
       (/\ chatHistory[i].role = "model" /\ ~chatHistory[i].isError
        /\ chatHistory[i].text \in {"reply", "quiz"})
          => \E j \in 1..(i - 1) :
                /\ chatHistory[j].role = "user"
                /\ chatHistory[j].text \in {"prompt", "submission"}
                /\ chatHistory[j].isSubmission = chatHistory[i].isSubmission

\* C28: in part_000, when every fetch comes back and every backoff wait ends,
\* a generation task that has started (isGenerating set by generateChallenge,
\* generateOneStepContent or the open-response handleSubmitChallenge) is
\* eventually over: the call has ended and isGenerating is false again,
\* whether the call returned or threw.
C28_TaskEventuallyFinishes ==
    isGenerating ~> (~isGenerating /\ call.pc = "idle")

\* a task of part_000 that is over after its call failed on the last attempt:
\* three fetches, two waits, the error entry at the end of the log
C28_Witness ==
    /\ variant = "tutor" /\ ~isGenerating /\ call.pc = "idle"
    /\ chatHistory # <<>>
    /\ chatHistory[Len(chatHistory)].isError
    /\ chatHistory[Len(chatHistory)].text = "http"

\* C29: within one question the labels derived for two different options are
\* different, so after an option has been selected no other option of the
\* question is shown as selected: at most one row of a question is selected.
C29_OneRowSelected ==
    currentChallenge.type = "multiple"
       => \A qIndex \in 1..Len(currentChallenge.questions) :
             \A o1, o2 \in {0, 1} :
                (IsSelected(qIndex, o1) /\ IsSelected(qIndex, o2)) => o1 = o2

\* C30: a multiple-choice session whose question list is empty is never
\* graded, so the percentage of a graded session is never computed with
\* totalCount = 0.
C30_EmptyExamNeverGraded ==
    (IsTutor /\ currentChallenge.type = "multiple" /\ currentChallenge.isCorrected)
       => /\ Len(currentChallenge.questions) > 0
          /\ currentChallenge.percentage.den # 0
====
